---- MODULE Spec2Model ----
(***************************************************************************)
(* Model of hoyo_buddy/draw/funcs/hoyo/hsr/apc_shadow.py: APCShadowCard,   *)
(* the Apocalyptic Shadow card.  _draw_block and _draw_stage are pure      *)
(* functions of their arguments and are operators; draw() is a sequence of *)
(* statements over the instance attributes self._im and self._drawer and   *)
(* is a process with one action per statement, so that two invocations can *)
(* be interleaved.                                                         *)
(***************************************************************************)
EXTENDS Integers, Sequences, FiniteSets, TLC

VARIABLES
    floors,     \* floors[o]: self._data.floors of card object o
    uid,        \* uid[o]: self._uid of card object o
    im,         \* im[o]: self._im, the canvas the attribute refers to
    drawer,     \* drawer[o]: the canvas self._drawer draws on
    canvas,     \* the canvases opened so far, by id
    active,     \* the threads that may call draw()
    obj,        \* obj[t]: the card object thread t calls draw() on
    pc,         \* pc[t]: the statement of draw() thread t is at
    inv,        \* inv[t]: number of the invocation thread t is running
    stages,     \* stages[t]: the local list `stages`
    filename,   \* filename[t]: the local `filename`
    pos,        \* pos[t]: the local `pos`
    idx,        \* idx[t]: the loop index i of enumerate(stages)
    rendered,   \* rendered[t]: the stages passed to _draw_stage, in order
    ret,        \* ret[t]: what draw() returned
    ncalls,     \* invocations of draw() started so far
    stage,      \* argument of a direct _draw_stage call
    tbox,       \* right edges of the boxes Drawer.write returns
    locale,     \* self._locale
    panel       \* result of a direct _draw_stage call

vars == <<floors, uid, im, drawer, canvas, active, obj, pc, inv, stages,
          filename, pos, idx, rendered, ret, ncalls, stage, tbox, locale, panel>>

drawVars == <<floors, uid, im, drawer, canvas, active, obj, pc, inv, stages,
              filename, pos, idx, rendered, ret, ncalls>>

stageVars == <<stage, tbox, locale, panel>>

----------------------------------------------------------------------------
(* Bounds *)

MaxFloors == 5
MaxFloorsConc == 2
MaxAvatars == 5
MaxStar == 3
MaxCalls == 2

\* Python None, where the other values are records.
None == [none |-> TRUE]

\* self._uid: no uid, or a uid.
Uids == {<<>>, <<800000001>>}

Threads == {1, 2}
Objects == {1, 2}
Locales == {"en", "ja"}
Widths == {120, 260}
Scores == {0, 3500}
StarNums == -1 .. MaxStar

----------------------------------------------------------------------------
(* Input data: genshin.models.starrail snapshots *)

\* The season passed to the constructor.
season == [name |-> "season", begin_time |-> <<2024, 6, 19>>, end_time |-> <<2024, 7, 29>>]

\* FloorCharacter number c.
Character(c) == [icon |-> c, level |-> 10 * c, rank |-> c % 7]

\* The avatars of one node: n characters numbered from first.
Avatars(first, n) == [k \in 1 .. n |-> Character(first + k - 1)]

Node(score, defeated, first, n) ==
    [score |-> score, boss_defeated |-> defeated, avatars |-> Avatars(first, n)]

\* Every APCShadowFloor a direct _draw_stage call is tried on.
StageInputs ==
    { [name |-> 1, score |-> s, star_num |-> st, is_quick_clear |-> qc,
       node_1 |-> Node(s1, b1, 1, n1), node_2 |-> Node(s2, b2, 11, n2)] :
        s \in Scores, s1 \in Scores, s2 \in Scores, st \in StarNums,
        qc \in BOOLEAN, b1 \in BOOLEAN, b2 \in BOOLEAN,
        n1 \in 0 .. MaxAvatars, n2 \in 0 .. MaxAvatars }

\* The floor stored at place i of self._data.floors.
Floor(i, qc) ==
    [name |-> i, score |-> 1000 * i + 7, star_num |-> i % 4, is_quick_clear |-> qc,
     node_1 |-> Node(1000 * i, i % 2 = 0, 1, i % 5),
     node_2 |-> Node(7, i % 3 = 0, 11, (i + 2) % 5)]

\* Every floors list of at most n floors.
FloorLists(n) ==
    UNION { { [i \in 1 .. len |-> Floor(i, q[i])] : q \in [1 .. len -> BOOLEAN] } :
            len \in 0 .. n }

----------------------------------------------------------------------------
(* Collaborators outside the source files *)

\* LocaleStr(key=...).translate(locale): one label per key and locale.
translate(key, loc) == key \o "@" \o loc

\* get_floor_difficulty(stage_name, season_name).
get_floor_difficulty(name, season_name) == <<"difficulty", name, season_name>>

----------------------------------------------------------------------------
(* _draw_block and _draw_stage *)

\* _draw_block(chara): the empty placeholder, or icon with level and rank.
_draw_block(chara) ==
    IF chara = None
    THEN [image |-> "block.png", pasted |-> <<[image |-> "empty.png", at |-> <<28, 28>>]>>,
          text |-> <<>>]
    ELSE [image |-> "block.png",
          pasted |-> <<[image |-> <<"icon", chara.icon>>, at |-> <<0, 0>>],
                       [image |-> "level_flair.png", at |-> <<0, 97>>],
                       [image |-> "const_flair.png", at |-> <<91, 0>>]>>,
          text |-> << <<"Lv.", chara.level>>, chara.rank >>]

\* Variant: the quick-clear branch shows the stage's own score.
ScoreParamActual(st) ==
    IF ~ st.is_quick_clear
    THEN [str |-> <<st.node_1.score, "+", st.node_2.score, "=", st.score>>]
    ELSE [int |-> st.score]

\* The score parameter of the pf_card_total_score string.
ScoreParam(st) ==
    IF ~ st.is_quick_clear
    THEN [str |-> <<st.node_1.score, "+", st.node_2.score, "=", st.score>>]
    ELSE [int |-> 8000]

\* The star icons pasted by `for _ in range(stage.star_num)`.
StarPastes(st, x0) ==
    [k \in 1 .. st.star_num |-> <<x0 + 62 * (k - 1), 0>>]

\* Variant: the mixed text follows the nodes, node_1's status first.
BossTextPerNode(st, loc) ==
    LET defeated_text == translate("apc_shadow.boss_defeated", loc)
        not_defeated_text == translate("apc_shadow.boss_defeated_no", loc)
        quick_clear_text == translate("moc_quick_clear", loc)
    IN  IF st.is_quick_clear THEN quick_clear_text
        ELSE IF st.node_1.boss_defeated /\ st.node_2.boss_defeated THEN defeated_text
        ELSE IF ~ st.node_1.boss_defeated /\ ~ st.node_2.boss_defeated
             THEN not_defeated_text
        ELSE IF st.node_1.boss_defeated
             THEN defeated_text \o " / " \o not_defeated_text
        ELSE not_defeated_text \o " / " \o defeated_text

\* The boss status text.
BossText(st, loc) ==
    LET defeated_text == translate("apc_shadow.boss_defeated", loc)
        not_defeated_text == translate("apc_shadow.boss_defeated_no", loc)
        quick_clear_text == translate("moc_quick_clear", loc)
    IN  IF st.is_quick_clear THEN quick_clear_text
        ELSE IF st.node_1.boss_defeated /\ st.node_2.boss_defeated THEN defeated_text
        ELSE IF ~ st.node_1.boss_defeated /\ ~ st.node_2.boss_defeated
             THEN not_defeated_text
        ELSE defeated_text \o " / " \o not_defeated_text

\* Variant: the last character is taken for out of range.
CharaAtOffByOne(characters, i) ==
    IF i + 1 < Len(characters) THEN characters[i + 1] ELSE None

\* characters[i] inside try/except IndexError, i counted from 0.
CharaAt(characters, i) ==
    IF i + 1 <= Len(characters) THEN characters[i + 1] ELSE None

\* pos at the start of iteration i of `for i in range(8)`.
BlockPos(i) == IF i <= 3 THEN <<172 * i, 135>> ELSE <<172 * (i - 4), 301>>

\* Variant: the loop runs over every character, `range(max(8, len(characters)))`.
BlocksUnclamped(st) ==
    LET characters == st.node_1.avatars \o st.node_2.avatars
        n == IF Len(characters) > 8 THEN Len(characters) ELSE 8
    IN  [k \in 1 .. n |->
            [chara |-> CharaAt(characters, k - 1),
             block |-> _draw_block(CharaAt(characters, k - 1)),
             at |-> BlockPos(k - 1)]]

\* The eight blocks pasted by the character loop.
Blocks(st) ==
    LET characters == st.node_1.avatars \o st.node_2.avatars
    IN  [k \in 1 .. 8 |->
            [chara |-> CharaAt(characters, k - 1),
             block |-> _draw_block(CharaAt(characters, k - 1)),
             at |-> BlockPos(k - 1)]]

\* _draw_stage(stage): the panel image, as the list of what was drawn on it.
_draw_stage(st, tb, loc) ==
    LET rightmost == IF tb.name >= tb.score THEN tb.name ELSE tb.score
        padding == 26
    IN  [status |-> "returned",
         size |-> <<639, 421>>,
         name |-> get_floor_difficulty(st.name, season.name),
         score |-> ScoreParam(st),
         line |-> <<rightmost + padding, 10>>,
         stars |-> StarPastes(st, rightmost + padding + 37),
         text |-> BossText(st, loc),
         text_at |-> <<rightmost + padding + 37, 60>>,
         blocks |-> Blocks(st)]

----------------------------------------------------------------------------
(* A direct call of _draw_stage on one stage *)

Idle ==
    /\ floors = [o \in Objects |-> <<>>]
    /\ uid = [o \in Objects |-> <<>>]
    /\ im = [o \in Objects |-> 0]
    /\ drawer = [o \in Objects |-> 0]
    /\ canvas = <<>>
    /\ active = {}
    /\ obj = [t \in Threads |-> 1]
    /\ pc = [t \in Threads |-> "idle"]
    /\ inv = [t \in Threads |-> 0]
    /\ stages = [t \in Threads |-> <<>>]
    /\ filename = [t \in Threads |-> ""]
    /\ pos = [t \in Threads |-> <<0, 0>>]
    /\ idx = [t \in Threads |-> 0]
    /\ rendered = [t \in Threads |-> <<>>]
    /\ ret = [t \in Threads |-> None]
    /\ ncalls = 0

InitStage ==
    /\ Idle
    /\ stage \in StageInputs
    /\ tbox \in [name : Widths, score : Widths]
    /\ locale \in Locales
    /\ panel = None

CallDrawStage ==
    /\ panel = None
    /\ panel' = _draw_stage(stage, tbox, locale)
    /\ UNCHANGED <<stage, tbox, locale>>
    /\ UNCHANGED drawVars

NextStage == CallDrawStage

SpecStage == InitStage /\ [][NextStage]_vars

----------------------------------------------------------------------------
(* draw(), one action per statement, run by thread t on card object obj[t] *)

\* The caller: the locals of a new invocation of draw() by thread t.
Enter(t) ==
    /\ ncalls' = ncalls + 1
    /\ inv' = [inv EXCEPT ![t] = ncalls + 1]
    /\ pc' = [pc EXCEPT ![t] = "filter"]
    /\ stages' = [stages EXCEPT ![t] = <<>>]
    /\ filename' = [filename EXCEPT ![t] = ""]
    /\ pos' = [pos EXCEPT ![t] = <<0, 0>>]
    /\ idx' = [idx EXCEPT ![t] = 0]
    /\ rendered' = [rendered EXCEPT ![t] = <<>>]
    /\ ret' = [ret EXCEPT ![t] = None]
    /\ UNCHANGED <<floors, uid, im, drawer, canvas, active, obj>>
    /\ UNCHANGED stageVars

\* The caller: thread t calls draw() on its card object.
Invoke(t) ==
    /\ t \in active
    /\ pc[t] = "idle"
    /\ Enter(t)

\* The caller: thread t calls draw() again on the same card object.
InvokeAgain(t) ==
    /\ t \in active
    /\ pc[t] = "done"
    /\ ncalls < MaxCalls
    /\ Enter(t)

\* [f for f in fl if not f.is_quick_clear]: a new list.
NotQuickClear(f) == ~ f.is_quick_clear

FilterFloors(fl) == SelectSeq(fl, NotQuickClear)

\* Variant: the list keeps its order.
ReverseKeep(s) == s

\* list.reverse().
Reverse(s) == [k \in 1 .. Len(s) |-> s[Len(s) + 1 - k]]

\* stages = [f for f in self._data.floors if not f.is_quick_clear]
FilterStages(t) ==
    /\ pc[t] = "filter"
    /\ stages' = [stages EXCEPT ![t] = FilterFloors(floors[obj[t]])]
    /\ pc' = [pc EXCEPT ![t] = "reverse"]
    /\ UNCHANGED <<floors, uid, im, drawer, canvas, active, obj, inv,
                   filename, pos, idx, rendered, ret, ncalls>>
    /\ UNCHANGED stageVars

\* Variant: `stages` is self._data.floors itself when nothing was filtered
\* out, and the reversal in place reverses the stored list too.
ReverseStagesAliased(t) ==
    /\ pc[t] = "reverse"
    /\ stages' = [stages EXCEPT ![t] = Reverse(stages[t])]
    /\ floors' = [floors EXCEPT ![obj[t]] =
                     IF stages[t] = @ THEN Reverse(@) ELSE @]
    /\ pc' = [pc EXCEPT ![t] = "open"]
    /\ UNCHANGED <<uid, im, drawer, canvas, active, obj, inv,
                   filename, pos, idx, rendered, ret, ncalls>>
    /\ UNCHANGED stageVars

\* stages.reverse(): in place, on the list the filter built.
ReverseStages(t) ==
    /\ pc[t] = "reverse"
    /\ stages' = [stages EXCEPT ![t] = Reverse(stages[t])]
    /\ pc' = [pc EXCEPT ![t] = "open"]
    /\ UNCHANGED <<floors, uid, im, drawer, canvas, active, obj, inv,
                   filename, pos, idx, rendered, ret, ncalls>>
    /\ UNCHANGED stageVars

\* Drawer.open_image(path): a fresh canvas, remembered with who opened it.
OpenImage(file, by) == [file |-> file, openedBy |-> by, texts |-> {}, pastes |-> {}]

\* Variant: the short template only below two stages.
TemplateNameStrict(st) ==
    IF Len(st) < 2 THEN "apc_shadow_short.png" ELSE "apc_shadow.png"

\* filename = "apc_shadow_short.png" if len(stages) <= 2 else "apc_shadow.png"
TemplateName(st) ==
    IF Len(st) <= 2 THEN "apc_shadow_short.png" ELSE "apc_shadow.png"

\* Variant: the canvas is kept in a class attribute, shared by every card.
OpenTemplateShared(t) ==
    /\ pc[t] = "open"
    /\ filename' = [filename EXCEPT ![t] = TemplateName(stages[t])]
    /\ canvas' = Append(canvas, OpenImage(TemplateName(stages[t]), inv[t]))
    /\ im' = [o \in Objects |-> Len(canvas) + 1]
    /\ pc' = [pc EXCEPT ![t] = "drawer"]
    /\ UNCHANGED <<floors, uid, drawer, active, obj, inv, stages,
                   pos, idx, rendered, ret, ncalls>>
    /\ UNCHANGED stageVars

\* self._im = Drawer.open_image(f".../{filename}")
OpenTemplate(t) ==
    /\ pc[t] = "open"
    /\ filename' = [filename EXCEPT ![t] = TemplateName(stages[t])]
    /\ canvas' = Append(canvas, OpenImage(TemplateName(stages[t]), inv[t]))
    /\ im' = [im EXCEPT ![obj[t]] = Len(canvas) + 1]
    /\ pc' = [pc EXCEPT ![t] = "drawer"]
    /\ UNCHANGED <<floors, uid, drawer, active, obj, inv, stages,
                   pos, idx, rendered, ret, ncalls>>
    /\ UNCHANGED stageVars

\* self._drawer = Drawer(ImageDraw.Draw(self._im), ...)
MakeDrawer(t) ==
    /\ pc[t] = "drawer"
    /\ drawer' = [drawer EXCEPT ![obj[t]] = im[obj[t]]]
    /\ pc' = [pc EXCEPT ![t] = "title"]
    /\ UNCHANGED <<floors, uid, im, canvas, active, obj, inv, stages,
                   filename, pos, idx, rendered, ret, ncalls>>
    /\ UNCHANGED stageVars

\* A text or LocaleStr handed to Drawer.write: its key and its parameters.
Text(key, args) == [key |-> key, args |-> args]

\* self._drawer.write(text, size=..., position=...) by thread t.
DrawerWrite(t, field, text, size, position) ==
    LET c == drawer[obj[t]]
        item == [by |-> inv[t], field |-> field, text |-> text, size |-> size,
                 position |-> position]
    IN  canvas' = [canvas EXCEPT ![c].texts = @ \cup {item}]

\* One header method: a write through self._drawer, then the next statement.
HeaderStep(t, at, field, text, size, position, next) ==
    /\ pc[t] = at
    /\ DrawerWrite(t, field, text, size, position)
    /\ pc' = [pc EXCEPT ![t] = next]
    /\ UNCHANGED <<floors, uid, im, drawer, active, obj, inv, stages,
                   filename, pos, idx, rendered, ret, ncalls>>
    /\ UNCHANGED stageVars

_write_title(t) ==
    HeaderStep(t, "title", "title", Text(season.name, <<>>), 80, <<76, 75>>, "season_time")

_write_season_time(t) ==
    HeaderStep(t, "season_time", "season_time",
               Text("%Y/%m/%d ~ %Y/%m/%d", season.begin_time \o season.end_time),
               36, <<76, 197>>, "max_stars")

\* self._data.total_stars, max_floor and total_battles of a floors list.
RECURSIVE SumStars(_)
SumStars(fl) == IF fl = <<>> THEN 0 ELSE Head(fl).star_num + SumStars(Tail(fl))

_write_max_stars(t) ==
    HeaderStep(t, "max_stars", "max_stars", Text("str", <<SumStars(floors[obj[t]])>>),
               50, <<193, 374>>, "farthest_stage")

_write_farthest_stage(t) ==
    HeaderStep(t, "farthest_stage", "farthest_stage",
               Text("apc_shadow.highest_diff_cleared", <<Len(floors[obj[t]])>>),
               25, <<303, 340>>, "times_challenged")

_write_times_challenged(t) ==
    HeaderStep(t, "times_challenged", "times_challenged",
               Text("apc_shadow.times_challenged", <<Len(floors[obj[t]])>>),
               25, <<303, 374>>, "uid")

\* HSRChallengeUIDMixin._write_uid: the uid footer, or nothing without a uid.
_write_uid(t) ==
    \/ /\ uid[obj[t]] # <<>>
       /\ HeaderStep(t, "uid", "uid", Text("uid", uid[obj[t]]), 36, <<0, 0>>, "pos")
    \/ /\ uid[obj[t]] = <<>>
       /\ pc[t] = "uid"
       /\ pc' = [pc EXCEPT ![t] = "pos"]
       /\ UNCHANGED <<floors, uid, im, drawer, canvas, active, obj, inv, stages,
                      filename, pos, idx, rendered, ret, ncalls>>
       /\ UNCHANGED stageVars

\* pos = (83, 482)
StartLoop(t) ==
    /\ pc[t] = "pos"
    /\ pos' = [pos EXCEPT ![t] = <<83, 482>>]
    /\ idx' = [idx EXCEPT ![t] = 0]
    /\ pc' = [pc EXCEPT ![t] = "loop"]
    /\ UNCHANGED <<floors, uid, im, drawer, canvas, active, obj, inv, stages,
                   filename, rendered, ret, ncalls>>
    /\ UNCHANGED stageVars

\* Variant: the row break comes one panel late.
NextPosBreakLate(p, i) == IF i = 2 THEN <<83, 980>> ELSE <<p[1] + 779, p[2]>>

\* Variant: a row break after every second panel.
NextPosWrap(p, i) == IF i % 2 = 1 THEN <<83, p[2] + 498>> ELSE <<p[1] + 779, p[2]>>

\* pos after the body of iteration i: advance, and the row break at i == 1.
NextPos(p, i) == IF i = 1 THEN <<83, 980>> ELSE <<p[1] + 779, p[2]>>

\* One iteration of `for i, stage in enumerate(stages)`.
PasteStage(t) ==
    /\ pc[t] = "loop"
    /\ idx[t] < Len(stages[t])
    /\ LET st == stages[t][idx[t] + 1]
           stage_im == _draw_stage(st, tbox, locale)
           c == im[obj[t]]
           item == [by |-> inv[t], stage |-> st.name, image |-> stage_im, at |-> pos[t]]
       IN  /\ canvas' = [canvas EXCEPT ![c].pastes = @ \cup {item}]
           /\ rendered' = [rendered EXCEPT ![t] =
                              Append(@, [i |-> idx[t], stage |-> st, at |-> pos[t]])]
    /\ pos' = [pos EXCEPT ![t] = NextPos(pos[t], idx[t])]
    /\ idx' = [idx EXCEPT ![t] = idx[t] + 1]
    /\ UNCHANGED <<floors, uid, im, drawer, active, obj, pc, inv, stages,
                   filename, ret, ncalls>>
    /\ UNCHANGED stageVars

\* return Drawer.save_image(self._im)
SaveImage(t) ==
    /\ pc[t] = "loop"
    /\ idx[t] = Len(stages[t])
    /\ ret' = [ret EXCEPT ![t] = [canvas |-> im[obj[t]], bytes |-> canvas[im[obj[t]]]]]
    /\ pc' = [pc EXCEPT ![t] = "done"]
    /\ UNCHANGED <<floors, uid, im, drawer, canvas, active, obj, inv, stages,
                   filename, pos, idx, rendered, ncalls>>
    /\ UNCHANGED stageVars

draw(t) ==
    \/ FilterStages(t)
    \/ ReverseStages(t)
    \/ OpenTemplate(t)
    \/ MakeDrawer(t)
    \/ _write_title(t)
    \/ _write_season_time(t)
    \/ _write_max_stars(t)
    \/ _write_farthest_stage(t)
    \/ _write_times_challenged(t)
    \/ _write_uid(t)
    \/ StartLoop(t)
    \/ PasteStage(t)
    \/ SaveImage(t)

Next == \E t \in Threads : Invoke(t) \/ InvokeAgain(t) \/ draw(t)

\* Two invocations, one by each thread.
NextConc == \E t \in Threads : Invoke(t) \/ draw(t)

\* What a draw specification fixes for the _draw_stage calls it makes.
StageFixed ==
    /\ stage = Floor(1, FALSE)
    /\ tbox = [name |-> 260, score |-> 120]
    /\ locale = "en"
    /\ panel = None

Locals ==
    /\ im = [o \in Objects |-> 0]
    /\ drawer = [o \in Objects |-> 0]
    /\ canvas = <<>>
    /\ pc = [t \in Threads |-> "idle"]
    /\ inv = [t \in Threads |-> 0]
    /\ stages = [t \in Threads |-> <<>>]
    /\ filename = [t \in Threads |-> ""]
    /\ pos = [t \in Threads |-> <<0, 0>>]
    /\ idx = [t \in Threads |-> 0]
    /\ rendered = [t \in Threads |-> <<>>]
    /\ ret = [t \in Threads |-> None]
    /\ ncalls = 0

\* One card object, one thread calling draw() on it, one call after another.
Init ==
    /\ Locals
    /\ StageFixed
    /\ active = {1}
    /\ obj = [t \in Threads |-> 1]
    /\ \E fl \in FloorLists(MaxFloors) : floors = [o \in Objects |-> IF o = 1 THEN fl ELSE <<>>]
    /\ \E u \in Uids : uid = [o \in Objects |-> IF o = 1 THEN u ELSE <<>>]

Spec == Init /\ [][Next]_vars

\* Two threads calling draw(), on the same card object or on two.
InitConc ==
    /\ Locals
    /\ StageFixed
    /\ active = Threads
    /\ \E o2 \in Objects :
        /\ obj = [t \in Threads |-> IF t = 1 THEN 1 ELSE o2]
        /\ \E f1 \in FloorLists(MaxFloorsConc) :
           \E f2 \in (IF o2 = 2 THEN FloorLists(MaxFloorsConc) ELSE {<<>>}) :
              floors = [o \in Objects |-> IF o = 1 THEN f1 ELSE f2]
    /\ uid = [o \in Objects |-> IF o = 1 THEN <<800000001>> ELSE <<>>]

SpecConc == InitConc /\ [][NextConc]_vars

----------------------------------------------------------------------------
(* Properties of draw() *)

\* The number N of stored floors of card object o that are not quick-clear.
CountNotQuick(o) == Cardinality({i \in DOMAIN floors[o] : ~ floors[o][i].is_quick_clear})

\* Thread t has opened its template.
Opened(t) == pc[t] \notin {"idle", "filter", "reverse", "open"}

\* The canvases invocation n opened.
OpenedBy(n) == {c \in DOMAIN canvas : canvas[c].openedBy = n}

\* C1: draw() opens apc_shadow_short.png if and only if the number N of floors
\* that are not quick-clear is at most 2, and apc_shadow.png otherwise;
\* quick-clear floors do not count toward N.
C1_TemplateByCount ==
    \A t \in active :
        Opened(t) =>
            LET want == IF CountNotQuick(obj[t]) <= 2
                        THEN "apc_shadow_short.png" ELSE "apc_shadow.png"
            IN  /\ filename[t] = want
                /\ OpenedBy(inv[t]) # {}
                /\ \A c \in OpenedBy(inv[t]) : canvas[c].file = want

C1_Witness ==
    /\ pc[1] = "done"
    /\ Len(floors[1]) = 4
    /\ CountNotQuick(1) = 2
    /\ filename[1] = "apc_shadow_short.png"

\* C2: the stages draw() passes to _draw_stage and pastes are the floors that
\* are not quick-clear, each exactly once, a floor stored later rendered
\* earlier; no quick-clear floor is rendered.  (The floor stored at place i
\* has name i.)
C2_ReverseFiltered ==
    \A t \in active :
        LET r == rendered[t]
            fl == floors[obj[t]]
        IN  /\ \A k \in DOMAIN r :
                /\ ~ r[k].stage.is_quick_clear
                /\ r[k].stage.name \in DOMAIN fl
                /\ r[k].stage = fl[r[k].stage.name]
                /\ \E c \in OpenedBy(inv[t]) : \E it \in canvas[c].pastes :
                      it.stage = r[k].stage.name /\ it.at = r[k].at
            /\ \A k, l \in DOMAIN r : k < l => r[k].stage.name > r[l].stage.name
            /\ pc[t] = "done" =>
                  \A i \in DOMAIN fl :
                      ~ fl[i].is_quick_clear =>
                          Cardinality({k \in DOMAIN r : r[k].stage.name = i}) = 1

C2_Witness ==
    /\ pc[1] = "done"
    /\ Len(rendered[1]) = 3
    /\ Len(floors[1]) = 4
    /\ floors[1][1].is_quick_clear
    /\ rendered[1][1].stage.name = 4

\* C3: the panel at filtered index 0 is pasted at (83, 482), index 1 at
\* (862, 482), index 2 at (83, 980) and index 3 at (862, 980).
C3_GridPlacement ==
    \A t \in active : \A k \in DOMAIN rendered[t] :
        LET r == rendered[t][k]
        IN  /\ r.i = k - 1
            /\ r.i = 0 => r.at = <<83, 482>>
            /\ r.i = 1 => r.at = <<83 + 779, 482>>
            /\ r.i = 2 => r.at = <<83, 980>>
            /\ r.i = 3 => r.at = <<83 + 779, 980>>

C3_Witness ==
    /\ pc[1] = "done"
    /\ Len(rendered[1]) = 4
    /\ rendered[1][4].at = <<862, 980>>

\* C9 as stated: every pasted panel has horizontal offset 83 or 83 + 779, the
\* panel at filtered index i in column i mod 2.
C9_TwoColumns ==
    \A t \in active : \A k \in DOMAIN rendered[t] :
        LET r == rendered[t][k]
        IN  /\ r.at[1] \in {83, 83 + 779}
            /\ r.at[1] = 83 + 779 * (r.i % 2)

\* C9 amended: the panels at filtered index 0 to 3 are in column i mod 2 of a
\* two-column grid; the row break happens only after index 1, so a panel at
\* index i >= 4 is pasted on the second row at horizontal offset
\* 83 + 779 * (i - 2), to the right of the second column.
C9_TwoColumnsUpToFour ==
    \A t \in active : \A k \in DOMAIN rendered[t] :
        LET r == rendered[t][k]
        IN  /\ r.i <= 3 => r.at[1] = 83 + 779 * (r.i % 2)
            /\ r.i >= 4 => r.at = <<83 + 779 * (r.i - 2), 980>>

C9_Witness ==
    /\ pc[1] = "done"
    /\ Len(rendered[1]) >= 5
    /\ rendered[1][5].at[1] = 1641

\* C8: draw() leaves its input unchanged: no step of any draw() call changes
\* the floors sequence, its order, or any stage, node or avatars list in it.
C8_InputUnchanged == [][floors' = floors]_vars

C8_Witness ==
    /\ pc[1] = "done"
    /\ ncalls = 2
    /\ Len(floors[1]) = 4
    /\ Len(rendered[1]) = 3
    /\ rendered[1][1].stage = floors[1][4]

----------------------------------------------------------------------------
(* Properties of two draw() invocations *)

\* Every write and paste on a canvas was made by the invocation that opened
\* it, and what an invocation returned is the canvas it opened.
Isolated ==
    /\ \A c \in DOMAIN canvas :
          /\ \A it \in canvas[c].texts : it.by = canvas[c].openedBy
          /\ \A it \in canvas[c].pastes : it.by = canvas[c].openedBy
    /\ \A t \in active :
          pc[t] = "done" =>
              /\ ret[t].canvas \in OpenedBy(inv[t])
              /\ ret[t].bytes = canvas[ret[t].canvas]

\* C7 as stated: in every interleaving of two draw() invocations, also on the
\* same card object, each invocation's writes and pastes land only on the
\* canvas it opened and it returns its own canvas.
C7_NoSharedState == Isolated

\* C7 amended: the same, for two invocations on two different card objects.
C7_DistinctObjects == obj[1] # obj[2] => Isolated

C7_Witness ==
    /\ obj[1] # obj[2]
    /\ pc[1] = "loop" /\ idx[1] = 1 /\ Len(stages[1]) = 2
    /\ pc[2] = "loop" /\ idx[2] = 1 /\ Len(stages[2]) = 2

----------------------------------------------------------------------------
(* Properties of _draw_stage *)

Called == panel # None

\* node_1.avatars followed by node_2.avatars, element i counted from 0.
Slot(i) ==
    IF i < Len(stage.node_1.avatars)
    THEN stage.node_1.avatars[i + 1]
    ELSE stage.node_2.avatars[i + 1 - Len(stage.node_1.avatars)]

NumCharacters == Len(stage.node_1.avatars) + Len(stage.node_2.avatars)

\* C4: the boss status text is the quick-clear label when is_quick_clear,
\* whatever the node flags; otherwise the defeated label when both bosses are
\* defeated, the not-defeated label when neither is, and
\* "<defeated> / <not defeated>" when exactly one is, whichever node it is.
C4_BossText ==
    Called =>
        LET d == translate("apc_shadow.boss_defeated", locale)
            n == translate("apc_shadow.boss_defeated_no", locale)
            q == translate("moc_quick_clear", locale)
            b1 == stage.node_1.boss_defeated
            b2 == stage.node_2.boss_defeated
        IN  /\ stage.is_quick_clear => panel.text = q
            /\ ~ stage.is_quick_clear /\ b1 /\ b2 => panel.text = d
            /\ ~ stage.is_quick_clear /\ ~ b1 /\ ~ b2 => panel.text = n
            /\ ~ stage.is_quick_clear /\ b1 # b2 => panel.text = d \o " / " \o n

C4_Witness ==
    /\ Called
    /\ ~ stage.is_quick_clear
    /\ ~ stage.node_1.boss_defeated
    /\ stage.node_2.boss_defeated
    /\ panel.text = "apc_shadow.boss_defeated@ja / apc_shadow.boss_defeated_no@ja"

\* C5: with k <= 8 characters in node_1.avatars and node_2.avatars together,
\* _draw_stage returns a panel of exactly 8 blocks; slot i < k renders element
\* i of node_1.avatars followed by node_2.avatars, every slot from k to 7
\* renders the empty placeholder.
C5_EightSlots ==
    Called /\ NumCharacters <= 8 =>
        /\ panel.status = "returned"
        /\ Len(panel.blocks) = 8
        /\ \A i \in 0 .. 7 :
              LET b == panel.blocks[i + 1]
              IN  IF i < NumCharacters
                  THEN /\ b.chara = Slot(i)
                       /\ b.block.pasted[1].image = <<"icon", Slot(i).icon>>
                       /\ b.block.text = << <<"Lv.", Slot(i).level>>, Slot(i).rank >>
                  ELSE /\ b.chara = None
                       /\ b.block.pasted = <<[image |-> "empty.png", at |-> <<28, 28>>]>>

C5_Witness ==
    /\ Called
    /\ Len(stage.node_1.avatars) = 2
    /\ Len(stage.node_2.avatars) = 1
    /\ panel.blocks[3].chara = Character(11)
    /\ panel.blocks[4].chara = None

\* C6: for a quick-clear stage the score parameter is the literal 8000,
\* whatever the three scores are; otherwise it is
\* "<node_1.score>+<node_2.score>=<stage.score>".
C6_ScoreParam ==
    Called =>
        /\ stage.is_quick_clear => panel.score = [int |-> 8000]
        /\ ~ stage.is_quick_clear =>
              panel.score =
                  [str |-> <<stage.node_1.score, "+", stage.node_2.score, "=", stage.score>>]

C6_Witness ==
    /\ Called
    /\ stage.is_quick_clear
    /\ stage.score = 3500
    /\ stage.node_1.score = 3500
    /\ panel.score = [int |-> 8000]

\* C10 as stated: with more than 8 characters, or a negative star_num,
\* _draw_stage fails instead of returning a panel.
C10_FailFast ==
    Called /\ (NumCharacters > 8 \/ stage.star_num < 0) => panel.status # "returned"

\* C10 amended: _draw_stage has no guard.  With more than 8 characters it
\* returns a panel of 8 blocks holding the first 8 characters, and the ones
\* past slot 7 are dropped; with a negative star_num it returns a panel with
\* no star.
C10_SilentClamp ==
    Called =>
        /\ NumCharacters > 8 =>
              /\ panel.status = "returned"
              /\ Len(panel.blocks) = 8
              /\ \A i \in 0 .. 7 : panel.blocks[i + 1].chara = Slot(i)
        /\ stage.star_num < 0 =>
              /\ panel.status = "returned"
              /\ panel.stars = <<>>

C10_Witness ==
    /\ Called
    /\ NumCharacters = 9
    /\ stage.star_num < 0
    /\ panel.blocks[8].chara = Character(13)

====
